---- MODULE Spec2Model ----
(***************************************************************************)
(* A model of basics/src/main.rs: the Bevy app with a charge-and-release   *)
(* ball launcher, the pointer-capture handling and the fixed-step motion   *)
(* of the launched balls.                                                  *)
(*                                                                         *)
(* Specifications.  Spec is the Update schedule frame by frame (launcher,  *)
(* focus and grab, spawning); SpecFixed is the FixedUpdate schedule over a *)
(* set of balls; SpecBar is Power and update_power_bar; SpecLook is        *)
(* player_look with the yaw.  They share the variables and the operators   *)
(* that model the systems.                                                 *)
(*                                                                         *)
(* Numbers.  f32 values are modelled by integers:                          *)
(*   - Power.current and the frame delta are in whole seconds / whole      *)
(*     power units (POWER_MIN = 1., POWER_MAX = 6.);                       *)
(*   - angles are in units of PI / 2 (pitch in -1 .. 1);                   *)
(*   - a Velocity component is held in units of 1 / (10 * 60) m/s and a    *)
(*     Transform translation in units of 1 / (10 * 60 * 60) m, so that one *)
(*     fixed step of 1/60 s is exact: GRAVITY * dt = -9.8 / 60 m/s is -98  *)
(*     velocity units and velocity * dt is the same number of translation  *)
(*     units.                                                              *)
(***************************************************************************)
EXTENDS Integers, Sequences, FiniteSets, TLC

\* ------------------------------------------------------------------ bounds
\* Largest frame delta (Time::delta_secs in Update), in seconds.
MaxDt == 1
\* Most mouse-button events the platform delivers within one frame.
MaxMouseEvents == 2
\* Most WindowFocused events the platform delivers within one frame.
MaxFocusEvents == 2
\* Most BallSpawn events written over a run (the code has no such limit).
MaxBalls == 1
\* Largest pointer motion of a frame, in units of PI / 2 after sensitivity.
MaxMotion == 1
\* Most fixed steps of a run of the FixedUpdate schedule.
MaxTicks == 52
\* Most balls in a run of the FixedUpdate schedule.
MaxBodies == 2

\* --------------------------------------------------------------- constants
SHOT_VELOCITY == 10
\* GRAVITY.y = -9.8, in tenths
GRAVITY_Y == -98
POWER_MIN == 1
POWER_MAX == 6
\* Time::<Fixed>::from_hz(60.)
FIXED_HZ == 60
\* PI / 2., the pitch limit, in units of PI / 2
PITCH_MAX == 1

\* Velocity units per m/s: tenths (GRAVITY_Y) times steps per second.
VEL_UNITS == 10 * FIXED_HZ
\* Translation units per m.
POS_UNITS == VEL_UNITS * FIXED_HZ

VARIABLES
    power,        \* Res<Power>: [charging, current]
    window,       \* the primary Window: [focused, cursor_visible, grab_locked]
    mouse,        \* ButtonInput<MouseButton> for MouseButton::Left
    delta,        \* Res<Time>: delta_secs of the frame
    pitch,        \* the Player's Transform rotation: the pitch
    focusEvents,  \* Events<WindowFocused> not yet read by focus_events
    ballSpawn,    \* Events<BallSpawn>: [old, new] buffers
    eventCount,   \* Events<BallSpawn>::event_count
    lastRead,     \* spawn_ball's EventReader cursor (last_event_count)
    commands,     \* deferred Commands of the Update systems, per system
    balls,        \* the entities with Transform and Velocity spawned by spawn_ball
    pc,           \* the position of the frame in the schedule
    ran,          \* the unordered Update systems that have run in this frame
    start,        \* history: Power and the event count when the frame began,
                  \* and the number of WindowFocused events it was given
    fixed,        \* the next system of FixedUpdate to run
    ticks,        \* fixed steps run so far
    flips,        \* history: per ball, the bounces since it went below the ground
    before,       \* history: the balls when the current fixed step began
    bar,          \* the node with PowerBar: [bg, width], and `seen`, history
    yaw,          \* the Player's Transform rotation: the yaw (SpecLook; 0 in Spec)
    motion        \* Res<AccumulatedMouseMotion>: delta (SpecLook)

vars == <<power, window, mouse, delta, pitch, focusEvents, ballSpawn, eventCount,
          lastRead, commands, balls, pc, ran, start, fixed, ticks, flips,
          before, bar, yaw, motion>>

\* ----------------------------------------------------------------- helpers
Vec3(x, y, z) == <<x, y, z>>
Y(v) == v[2]
Mul(v, k) == <<v[1] * k, v[2] * k, v[3] * k>>
Add(v, w) == <<v[1] + w[1], v[2] + w[2], v[3] + w[3]>>
ZERO == Vec3(0, 0, 0)
Last(s) == s[Len(s)]

\* f32::clamp
Clamp(x, lo, hi) == IF x < lo THEN lo ELSE IF x > hi THEN hi ELSE x

\* Sequences over S of length at most n.
SeqsUpTo(S, n) == UNION {[1..k -> S] : k \in 0..n}

\* Transform::forward for yaw 0 and a pitch of p * PI/2: (0, sin, -cos).
Forward(p) == Vec3(0, p, (p * p) - 1)

\* The Player's translation: spawn_camera puts it at the origin (player_move,
\* which keeps y = 0, is not modelled).
PlayerTranslation == ZERO

\* ------------------------------------------------------------------- input
\* ButtonInput::press / ButtonInput::release applied to the Left button.
Press(m) ==
    IF m.pressed THEN m
    ELSE [m EXCEPT !.pressed = TRUE, !.just_pressed = TRUE]
Release(m) ==
    IF m.pressed THEN [m EXCEPT !.pressed = FALSE, !.just_released = TRUE]
    ELSE m

RECURSIVE ApplyMouse(_, _)
ApplyMouse(m, evs) ==
    IF evs = <<>> THEN m
    ELSE ApplyMouse(IF evs[1] = "press" THEN Press(m) ELSE Release(m), Tail(evs))

\* ButtonInput::clear at the start of a frame, then the frame's events.
MouseUpdate(m, evs) ==
    ApplyMouse([m EXCEPT !.just_pressed = FALSE, !.just_released = FALSE], evs)

\* ------------------------------------------------------- update_power_bar
\* Colour channels are in units of 1 / (POWER_MAX - POWER_MIN), fifths, so
\* that the 0.2 of NOT_CHARGING is 1 and `percent` is a whole number; widths
\* are in units of 1 / 30 of the literal 29.75 (VMax), so that MIN_FILL is 5,
\* EMPTY_SPACE is 25 and percent * EMPTY_SPACE is whole.
COLOR_UNITS == POWER_MAX - POWER_MIN
LinearRgb(r, g, b) == <<r, g, b>>
NOT_CHARGING == LinearRgb(1, 1, 1)
FULL_WIDTH == POWER_MAX * COLOR_UNITS
MIN_FILL == FULL_WIDTH \div POWER_MAX
EMPTY_SPACE == FULL_WIDTH - MIN_FILL

\* The PowerBar component spawn_map gives the fill node.
PowerBarConfig == [min |-> POWER_MIN, max |-> POWER_MAX]

\* `percent` of update_power_bar, in colour units.
Percent(p, config) ==
    ((p.current - config.min) * COLOR_UNITS) \div (config.max - config.min)

\* Mutant: update_power_bar without its `if !power.charging` branch.
UpdatePowerBar_NoIdle(p, config) ==
    LET percent == Percent(p, config)
    IN  [bg |-> LinearRgb(COLOR_UNITS - percent, percent, 0),
         width |-> MIN_FILL + (percent * EMPTY_SPACE) \div COLOR_UNITS,
         seen |-> << p >>]

\* The background colour and the width update_power_bar gives a bar for
\* Power p.  `seen` is history: the Power it was given, in a
\* sequence that is empty until update_power_bar has run.
UpdatePowerBar(p, config) ==
    IF ~p.charging
    THEN [bg |-> NOT_CHARGING, width |-> MIN_FILL, seen |-> << p >>]
    ELSE LET percent == Percent(p, config)
         IN  [bg |-> LinearRgb(COLOR_UNITS - percent, percent, 0),
              width |-> MIN_FILL + (percent * EMPTY_SPACE) \div COLOR_UNITS,
              seen |-> << p >>]

\* ------------------------------------------------------------------- state
Init ==
    /\ power = [charging |-> FALSE, current |-> 0]
    /\ window = [focused |-> TRUE, cursor_visible |-> TRUE, grab_locked |-> FALSE]
    /\ mouse = [pressed |-> FALSE, just_pressed |-> FALSE, just_released |-> FALSE]
    /\ delta = 0
    /\ pitch = 0
    /\ focusEvents = <<>>
    /\ ballSpawn = [old |-> <<>>, new |-> <<>>]
    /\ eventCount = 0
    /\ lastRead = 0
    /\ commands = [focus_events |-> <<>>, toggle_grab |-> <<>>, spawn_ball |-> <<>>]
    /\ balls = <<>>
    /\ pc = "First"
    /\ ran = {}
    /\ start = [charging |-> FALSE, current |-> 0, count |-> 0, signals |-> 0]
    /\ fixed = "apply_gravity"
    /\ ticks = 0
    /\ flips = <<>>
    /\ before = <<>>
    /\ bar = [bg |-> NOT_CHARGING, width |-> "Auto", seen |-> <<>>]
    /\ yaw = 0
    /\ motion = <<0, 0>>

\* ----------------------------------------------------------- frame: First
\* The event sequences the platform may deliver in a frame.  A press is only
\* offered while the run's budget of BallSpawn events allows one more shot.
MouseEvents ==
    IF eventCount + (IF power.charging THEN 1 ELSE 0) < MaxBalls
    THEN SeqsUpTo({"press", "release"}, MaxMouseEvents)
    ELSE SeqsUpTo({"release"}, MaxMouseEvents)

\* First and PreUpdate of a frame: Events<BallSpawn>::update swaps the
\* buffers, Time gets the frame's delta, the input systems fold the frame's
\* button events into ButtonInput, and the window's focus events set
\* Window::focused and are queued as WindowFocused events.  `start` holds
\* Power and the event count as the last frame left them (nothing changes
\* them between two frames) and takes the number of focus events.
BeginFrame ==
    /\ pc = "First"
    /\ \E dt \in 0..MaxDt, evs \in MouseEvents,
          fe \in SeqsUpTo(BOOLEAN, MaxFocusEvents) :
        /\ delta' = dt
        /\ mouse' = MouseUpdate(mouse, evs)
        /\ focusEvents' = fe
        /\ window' = IF fe = <<>> THEN window
                     ELSE [window EXCEPT !.focused = Last(fe)]
    /\ ballSpawn' = [old |-> ballSpawn.new, new |-> <<>>]
    /\ ran' = {}
    /\ start' = [start EXCEPT !.signals = Len(focusEvents')]
    /\ pc' = "shoot_ball"
    /\ UNCHANGED <<power, pitch, eventCount, lastRead, commands, balls,
                   fixed, ticks, flips,
                   bar, yaw, motion, before>>

\* ------------------------------------------------------------- shoot_ball
\* The literal of `power.current = 1.;`
RESET_POWER == 1

\* Mutant: shoot_ball without its `if window.cursor_options.visible` return.
ShootPower_NoGate(p, m, visible, dt) ==
    LET released == p.charging /\ m.just_released
        p1 == IF released
              THEN [charging |-> FALSE, current |-> RESET_POWER]
              ELSE p
        p2 == IF p.charging /\ m.pressed
              THEN [p1 EXCEPT !.current =
                        Clamp(p1.current + dt, POWER_MIN, POWER_MAX)]
              ELSE p1
    IN  IF m.just_pressed THEN [p2 EXCEPT !.charging = TRUE] ELSE p2

\* Mutant: shoot_ball without the clamp of power.current.
ShootPower_NoClamp(p, m, visible, dt) ==
    IF visible THEN p
    ELSE
        LET released == p.charging /\ m.just_released
            p1 == IF released
                  THEN [charging |-> FALSE, current |-> RESET_POWER]
                  ELSE p
            p2 == IF p.charging /\ m.pressed
                  THEN [p1 EXCEPT !.current = p1.current + dt]
                  ELSE p1
        IN  IF m.just_pressed THEN [p2 EXCEPT !.charging = TRUE] ELSE p2

\* Mutant: shoot_ball with `if inputs.pressed` outside `if power.charging`.
ShootPower_ChargeIdle(p, m, visible, dt) ==
    IF visible THEN p
    ELSE
        LET released == p.charging /\ m.just_released
            p1 == IF released
                  THEN [charging |-> FALSE, current |-> RESET_POWER]
                  ELSE p
            p2 == IF m.pressed
                  THEN [p1 EXCEPT !.current =
                            Clamp(p1.current + dt, POWER_MIN, POWER_MAX)]
                  ELSE p1
        IN  IF m.just_pressed THEN [p2 EXCEPT !.charging = TRUE] ELSE p2

\* Mutant: shoot_ball ending the charge when the button is up, not on its
\* release edge.
ShootPower_IdleDrop(p, m, visible, dt) ==
    IF visible THEN p
    ELSE
        LET released == p.charging /\ ~m.pressed
            p1 == IF released
                  THEN [charging |-> FALSE, current |-> RESET_POWER]
                  ELSE p
            p2 == IF p.charging /\ m.pressed
                  THEN [p1 EXCEPT !.current =
                            Clamp(p1.current + dt, POWER_MIN, POWER_MAX)]
                  ELSE p1
        IN  IF m.just_pressed THEN [p2 EXCEPT !.charging = TRUE] ELSE p2

\* Power after shoot_ball, for Power p, button state m, cursor visibility and
\* frame delta dt.
ShootPower(p, m, visible, dt) ==
    IF visible THEN p
    ELSE
        LET released == p.charging /\ m.just_released
            p1 == IF released
                  THEN [charging |-> FALSE, current |-> RESET_POWER]
                  ELSE p
            p2 == IF p.charging /\ m.pressed
                  THEN [p1 EXCEPT !.current =
                            Clamp(p1.current + dt, POWER_MIN, POWER_MAX)]
                  ELSE p1
        IN  IF m.just_pressed THEN [p2 EXCEPT !.charging = TRUE] ELSE p2

\* Mutant: shoot_ball writing the event after the reset of power.current.
ShootWrites_AfterReset(p, m, visible, translation, fwd) ==
    IF ~visible /\ p.charging /\ m.just_released
    THEN << [position |-> translation,
             velocity |-> Mul(fwd, SHOT_VELOCITY),
             power |-> RESET_POWER,
             forward |-> fwd] >>
    ELSE <<>>

\* Mutant: shoot_ball testing just_released outside `if power.charging`.
ShootWrites_Idle(p, m, visible, translation, fwd) ==
    IF ~visible /\ m.just_released
    THEN << [position |-> translation,
             velocity |-> Mul(fwd, SHOT_VELOCITY),
             power |-> p.current,
             forward |-> fwd] >>
    ELSE <<>>

\* The BallSpawn events shoot_ball writes (without their sequence number).
\* `forward` is history: the Player's forward vector at the write.
ShootWrites(p, m, visible, translation, fwd) ==
    IF ~visible /\ p.charging /\ m.just_released
    THEN << [position |-> translation,
             velocity |-> Mul(fwd, SHOT_VELOCITY),
             power |-> p.current,
             forward |-> fwd] >>
    ELSE <<>>

\* EventWriter::write of each event of ws, numbered from n + 1.
Numbered(ws, n) ==
    [i \in 1..Len(ws) |->
        [id |-> n + i, position |-> ws[i].position, velocity |-> ws[i].velocity,
         power |-> ws[i].power, forward |-> ws[i].forward]]

shoot_ball ==
    /\ pc = "shoot_ball"
    /\ LET ws == ShootWrites(power, mouse, window.cursor_visible,
                             PlayerTranslation, Forward(pitch))
       IN  /\ ballSpawn' = [ballSpawn EXCEPT !.new = @ \o Numbered(ws, eventCount)]
           /\ eventCount' = eventCount + Len(ws)
    /\ power' = ShootPower(power, mouse, window.cursor_visible, delta)
    /\ pc' = "focus_events"
    /\ UNCHANGED <<window, mouse, delta, pitch, focusEvents, lastRead,
                   commands, balls, ran, start, fixed, ticks, flips,
                   bar, yaw, motion, before>>

\* ------------------------------------------------------------- spawn_ball
\* The Velocity component of a velocity in m/s, and the Transform of a
\* position in m (see Numbers above).
Velocity(v) == Mul(v, VEL_UNITS)
FromTranslation(v) == Mul(v, POS_UNITS)

\* Mutant: a reader that keeps no cursor and reads every buffered event.
Unread_All(buf, cursor) == buf.old \o buf.new

\* EventReader::read: the buffered events the reader has not yet seen.
Unread(buf, cursor) ==
    SelectSeq(buf.old \o buf.new, LAMBDA e : e.id > cursor)

\* The bundle spawn_ball spawns for one event (mesh and material left out).
\* `request`, `forward` and `power` are history: the event it was made from.
Ball(spawn) ==
    [translation |-> FromTranslation(spawn.position),
     velocity |-> Velocity(Mul(Mul(spawn.velocity, spawn.power), SHOT_VELOCITY)),
     request |-> spawn.id, forward |-> spawn.forward, power |-> spawn.power]

spawn_ball ==
    /\ pc = "spawn_ball"
    /\ LET es == Unread(ballSpawn, lastRead)
       IN  commands' = [commands EXCEPT !.spawn_ball =
                            @ \o [i \in 1..Len(es) |-> Ball(es[i])]]
    /\ lastRead' = eventCount
    /\ pc' = "ApplyDeferred"
    /\ UNCHANGED <<power, window, mouse, delta, pitch, focusEvents,
                   ballSpawn, eventCount, balls, ran, start, fixed, ticks,
                   flips,
                   bar, yaw, motion, before>>

\* ----------------------------------------------------------- focus, grab
\* Mutant: focus_events triggering a GrabEvent for every event it reads.
FocusTrigger_Each(evs) == evs

\* The GrabEvent focus_events triggers: the last WindowFocused event, if any.
FocusTrigger(evs) == IF evs = <<>> THEN <<>> ELSE << Last(evs) >>

focus_events ==
    /\ pc = "focus_events"
    /\ commands' = [commands EXCEPT !.focus_events = @ \o FocusTrigger(focusEvents)]
    /\ focusEvents' = <<>>
    /\ pc' = "spawn_ball"
    /\ UNCHANGED <<power, window, mouse, delta, pitch, ballSpawn,
                   eventCount, lastRead, balls, ran, start, fixed, ticks,
                   flips,
                   bar, yaw, motion, before>>

\* The points of a frame where a system that Update orders against no other
\* runs: before shoot_ball, or after the ordered systems.  (Where it falls
\* among focus_events and spawn_ball makes no difference: they share no
\* data with it.)
Unordered == pc \in {"shoot_ball", "ApplyDeferred"}

\* toggle_grab, in a frame where Escape was just released.
toggle_grab ==
    /\ Unordered
    /\ "toggle_grab" \notin ran
    /\ window' = [window EXCEPT !.focused = ~window.focused]
    /\ commands' = [commands EXCEPT !.toggle_grab = @ \o << ~window.focused >>]
    /\ ran' = ran \cup {"toggle_grab"}
    /\ UNCHANGED <<power, mouse, delta, pitch, focusEvents, ballSpawn,
                   eventCount, lastRead, balls, pc, start, fixed, ticks,
                   flips,
                   bar, yaw, motion, before>>

\* The run condition input_just_released(KeyCode::Escape) is false.
toggle_grab_skipped ==
    /\ Unordered
    /\ "toggle_grab" \notin ran
    /\ ran' = ran \cup {"toggle_grab"}
    /\ UNCHANGED <<power, window, mouse, delta, pitch, focusEvents,
                   ballSpawn, eventCount, lastRead, commands, balls, pc,
                   start, fixed, ticks, flips,
                   bar, yaw, motion, before>>

\* The observer apply_grab, for a GrabEvent(grab).
ApplyGrab(w, grab) ==
    IF grab
    THEN [w EXCEPT !.cursor_visible = FALSE, !.grab_locked = TRUE]
    ELSE [w EXCEPT !.cursor_visible = TRUE, !.grab_locked = FALSE]

RECURSIVE ApplyGrabs(_, _)
ApplyGrabs(w, grabs) ==
    IF grabs = <<>> THEN w
    ELSE ApplyGrabs(ApplyGrab(w, grabs[1]), Tail(grabs))

\* ------------------------------------------------------------ player_look
\* A full turn, and the yaw Quat::to_euler gives back for a yaw of y: the
\* same angle within (-PI, PI].
TURN == PITCH_MAX * 4
WrapYaw(y) == ((y + (TURN \div 2) - 1) % TURN) - ((TURN \div 2) - 1)

\* Mutant: player_look without its `if !window.focused` return.
Look_Unfocused(w, yw, p, dx, dy) ==
    [yaw |-> WrapYaw(yw - dx), pitch |-> Clamp(p - dy, -PITCH_MAX, PITCH_MAX)]

\* The yaw and pitch after player_look, for a yaw yw, a pitch p and a pointer
\* motion of (dx, dy) (times sensitivity).
Look(w, yw, p, dx, dy) ==
    IF ~w.focused THEN [yaw |-> yw, pitch |-> p]
    ELSE [yaw |-> WrapYaw(yw - dx),
          pitch |-> Clamp(p - dy, -PITCH_MAX, PITCH_MAX)]

\* The pitch after player_look for a pointer motion of dy (times sensitivity).
LookPitch(w, p, dy) == Look(w, 0, p, 0, dy).pitch

\* player_look is ordered only before player_move.
player_look ==
    /\ Unordered
    /\ "player_look" \notin ran
    /\ \E dy \in (-MaxMotion)..MaxMotion : pitch' = LookPitch(window, pitch, dy)
    /\ ran' = ran \cup {"player_look"}
    /\ UNCHANGED <<power, window, mouse, delta, focusEvents, ballSpawn,
                   eventCount, lastRead, commands, balls, pc, start, fixed,
                   ticks, flips,
                   bar, yaw, motion, before>>

\* ---------------------------------------------------------- end of Update
\* The deferred Commands of Update are applied when every system has run:
\* the triggers run apply_grab, the spawns create the balls.  focus_events
\* and toggle_grab are unordered, so their buffers are applied in either order.
\* `start` is set for the frame to come.
ApplyDeferred ==
    /\ pc = "ApplyDeferred"
    /\ ran = {"toggle_grab", "player_look"}
    /\ \E grabs \in {commands.focus_events \o commands.toggle_grab,
                     commands.toggle_grab \o commands.focus_events} :
        window' = ApplyGrabs(window, grabs)
    /\ balls' = balls \o commands.spawn_ball
    /\ flips' = flips \o [i \in 1..Len(commands.spawn_ball) |-> 0]
    /\ commands' = [focus_events |-> <<>>, toggle_grab |-> <<>>, spawn_ball |-> <<>>]
    /\ start' = [charging |-> power.charging, current |-> power.current,
                 count |-> eventCount, signals |-> 0]
    /\ pc' = "First"
    /\ UNCHANGED <<power, mouse, delta, pitch, focusEvents, ballSpawn,
                   eventCount, lastRead, ran, fixed, ticks,
                   bar, yaw, motion, before>>

Next ==
    \/ BeginFrame
    \/ shoot_ball
    \/ spawn_ball
    \/ focus_events
    \/ toggle_grab
    \/ toggle_grab_skipped
    \/ player_look
    \/ ApplyDeferred

Spec == Init /\ [][Next]_vars

\* --------------------------------------------------- Power and its bar
\* The frames as Power and the power bar see them.  Update orders
\* update_power_bar against no system: in every frame it runs once, before
\* or after shoot_ball.  `ran` holds which of the two have run in the frame;
\* when both have, the next run of either begins a new frame.
BarSystems == {"shoot_ball", "update_power_bar"}
MayRun(sys) == sys \notin ran \/ ran = BarSystems
RanWith(sys) == IF ran = BarSystems THEN {sys} ELSE ran \cup {sys}

\* The frame's delta and button events, then shoot_ball as far as Power
\* goes, then the cursor as the frame's GrabEvent (if any) leaves it.
ChargeFrame ==
    /\ MayRun("shoot_ball")
    /\ \E dt \in 0..MaxDt,
          evs \in SeqsUpTo({"press", "release"}, MaxMouseEvents),
          grabs \in SeqsUpTo(BOOLEAN, 1) :
        /\ delta' = dt
        /\ mouse' = MouseUpdate(mouse, evs)
        /\ power' = ShootPower(power, mouse', window.cursor_visible, dt)
        /\ window' = ApplyGrabs(window, grabs)
    /\ ran' = RanWith("shoot_ball")
    /\ UNCHANGED <<pitch, focusEvents, ballSpawn, eventCount, lastRead,
                   commands, balls, pc, start, fixed, ticks, flips, before,
                   bar, yaw, motion>>

\* update_power_bar: the one node with a PowerBar.
update_power_bar ==
    /\ MayRun("update_power_bar")
    /\ bar' = UpdatePowerBar(power, PowerBarConfig)
    /\ ran' = RanWith("update_power_bar")
    /\ UNCHANGED <<power, window, mouse, delta, pitch, focusEvents,
                   ballSpawn, eventCount, lastRead, commands, balls, pc,
                   start, fixed, ticks, flips, before, yaw, motion>>

NextBar ==
    \/ ChargeFrame
    \/ update_power_bar

SpecBar == Init /\ [][NextBar]_vars

\* C16: whenever update_power_bar is given a Power with charging false, it
\* leaves the bar with the colour NOT_CHARGING and the width MIN_FILL,
\* whatever Power.current is.
C16_IdleBarIsNeutral ==
    (bar.seen # <<>> /\ ~bar.seen[1].charging) =>
        (bar.bg = NOT_CHARGING /\ bar.width = MIN_FILL)

\* C16 witness: the bar updated while idle after a release reset
\* Power.current, which is no longer the 0 it started with.
C16_Witness ==
    /\ bar.seen # <<>>
    /\ ~bar.seen[1].charging
    /\ bar.seen[1].current = RESET_POWER
    /\ bar.bg = NOT_CHARGING
    /\ bar.width = MIN_FILL

\* ------------------------------------------------------- the Player's view
\* The frames as the Player's rotation sees them, with the yaw.  `ran` holds
\* which of player_look and toggle_grab have run in the frame.
\* First and PreUpdate of a frame: the pointer motion of the frame, and the
\* window's focus events set Window::focused.
LookInput ==
    /\ "player_look" \in ran
    /\ \E dx \in (-MaxMotion)..MaxMotion, dy \in (-MaxMotion)..MaxMotion :
        motion' = <<dx, dy>>
    /\ \E fe \in SeqsUpTo(BOOLEAN, MaxFocusEvents) :
        window' = IF fe = <<>> THEN window
                  ELSE [window EXCEPT !.focused = Last(fe)]
    /\ ran' = {}
    /\ UNCHANGED <<power, mouse, delta, pitch, focusEvents, ballSpawn,
                   eventCount, lastRead, commands, balls, pc, start, fixed,
                   ticks, flips, before, bar, yaw>>

\* toggle_grab as far as Window::focused goes, in a frame where Escape was
\* just released; it is unordered against player_look.
toggle_focused ==
    /\ "toggle_grab" \notin ran
    /\ window' = [window EXCEPT !.focused = ~window.focused]
    /\ ran' = ran \cup {"toggle_grab"}
    /\ UNCHANGED <<power, mouse, delta, pitch, focusEvents, ballSpawn,
                   eventCount, lastRead, commands, balls, pc, start, fixed,
                   ticks, flips, before, bar, yaw, motion>>

\* player_look, with the yaw.
player_look_yaw ==
    /\ "player_look" \notin ran
    /\ LET o == Look(window, yaw, pitch, motion[1], motion[2])
       IN  yaw' = o.yaw /\ pitch' = o.pitch
    /\ ran' = ran \cup {"player_look"}
    /\ UNCHANGED <<power, window, mouse, delta, focusEvents, ballSpawn,
                   eventCount, lastRead, commands, balls, pc, start, fixed,
                   ticks, flips, before, bar, motion>>

NextLook ==
    \/ LookInput
    \/ toggle_focused
    \/ player_look_yaw

SpecLook == Init /\ [][NextLook]_vars

\* C15: the pitch is within [-PI/2, PI/2] before and after every step, and
\* a run of player_look that finds Window::focused false leaves yaw and
\* pitch as they were.
C15_PitchBoundedLookFrozen ==
    [][/\ pitch \in (-PITCH_MAX)..PITCH_MAX
       /\ pitch' \in (-PITCH_MAX)..PITCH_MAX
       /\ ("player_look" \notin ran /\ "player_look" \in ran'
              /\ ~window.focused) =>
              (yaw' = yaw /\ pitch' = pitch)]_vars

\* C15 witness: player_look has run in a frame without focus and with a
\* pointer motion, and the view is still turned and at the pitch limit.
C15_Witness ==
    /\ "player_look" \in ran
    /\ "toggle_grab" \notin ran
    /\ ~window.focused
    /\ motion = <<MaxMotion, MaxMotion>>
    /\ pitch = PITCH_MAX
    /\ yaw # 0

\* ------------------------------------------------- properties of a frame
\* shoot_ball has run in the current frame and its Commands are not yet
\* applied: the Power, the cursor visibility and the BallSpawn buffers are
\* those shoot_ball left, `start` holds what it found.
Shot == pc \in {"focus_events", "spawn_ball", "ApplyDeferred"}
\* The BallSpawn events written in the current frame.
Written == ballSpawn.new
\* A release edge met a charge that the hidden cursor lets shoot_ball see.
ReleasedCharge ==
    Shot /\ ~window.cursor_visible /\ start.charging /\ mouse.just_released

\* C1 (as claimed): in every reachable state current_power is within
\* [POWER_MIN, POWER_MAX].
C1_PowerInRange ==
    power.current >= POWER_MIN /\ power.current <= POWER_MAX

C3_IdleReleaseEmitsNothing ==
    (Shot /\ ~start.charging /\ mouse.just_released) =>
        (Written = <<>> /\ eventCount = start.count)

\* C3 witness: the release edge of a press made while the pointer was
\* visible, seen with the pointer hidden and no charge.
C3_Witness ==
    /\ Shot
    /\ ~start.charging
    /\ mouse.just_released
    /\ ~window.cursor_visible
    /\ Written = <<>>

\* C8: in a frame where the pointer is visible, shoot_ball leaves charging
\* and current_power as they were and emits no Spawn Request; so charging
\* becomes true only in a frame with the pointer hidden.
C8_VisiblePointerIgnored ==
    /\ (Shot /\ window.cursor_visible) =>
          /\ power.charging = start.charging
          /\ power.current = start.current
          /\ Written = <<>>
          /\ eventCount = start.count
    /\ (Shot /\ ~start.charging /\ power.charging) => ~window.cursor_visible

\* C8 witness: a press edge in a frame with the pointer visible, and no
\* charge begun.
C8_Witness ==
    /\ Shot
    /\ window.cursor_visible
    /\ mouse.just_pressed
    /\ mouse.pressed
    /\ ~power.charging

\* C9 (as claimed): in every frame that starts charging, current_power
\* becomes clamp(current_power + elapsed, POWER_MIN, POWER_MAX).  It is stated
\* for the frames that start with current_power within its range, so that a
\* violation does not rest on the initial current_power of 0 (C1).
C9_ChargingAlwaysAdvances ==
    (Shot /\ start.charging /\ start.current >= POWER_MIN) =>
        power.current =
            (IF start.current + delta < POWER_MIN THEN POWER_MIN
             ELSE IF start.current + delta > POWER_MAX THEN POWER_MAX
             ELSE start.current + delta)

\* C9 (amended): in every frame with the pointer hidden that starts charging
\* and in which the control is down and no release edge is seen,
\* current_power becomes clamp(current_power + elapsed, POWER_MIN, POWER_MAX);
\* so two seconds of such frames from POWER_MIN = 1 give 3, and a release
\* then emits one Spawn Request with power 3 (C2).
C9_HeldChargeAdvances ==
    (Shot /\ start.charging /\ ~window.cursor_visible
          /\ mouse.pressed /\ ~mouse.just_released) =>
        power.current =
            (IF start.current + delta < POWER_MIN THEN POWER_MIN
             ELSE IF start.current + delta > POWER_MAX THEN POWER_MAX
             ELSE start.current + delta)

\* C9 witness: a held frame took the charge from 2 to 3, the second second
\* of a charge from POWER_MIN.
C9_Witness ==
    /\ Shot
    /\ start.charging
    /\ ~window.cursor_visible
    /\ mouse.pressed
    /\ ~mouse.just_released
    /\ delta = 1
    /\ start.current = POWER_MIN + 1
    /\ power.current = POWER_MIN + 2

\* C10: in a frame that starts with charging false, current_power at the end
\* of the frame is its value at the start, a press in that frame included.
C10_IdlePowerInert ==
    (pc # "shoot_ball" /\ ~start.charging) => power.current = start.current

\* C10 witness: a press edge, with positive elapsed time, began a charge and
\* left current_power alone.
C10_Witness ==
    /\ Shot
    /\ ~start.charging
    /\ ~window.cursor_visible
    /\ mouse.just_pressed
    /\ mouse.pressed
    /\ delta > 0
    /\ power.charging
    /\ power.current = start.current

\* C6 (as claimed): every ball has velocity = direction * power *
\* SHOT_VELOCITY, for the forward vector and the power of its Spawn Request.
C6_LaunchVelocity ==
    \A i \in 1..Len(balls) :
        balls[i].velocity =
            Mul(Mul(Mul(balls[i].forward, balls[i].power), SHOT_VELOCITY),
                VEL_UNITS)

C14_FractionInRange ==
    power.charging =>
        /\ Percent(power, PowerBarConfig) >= 0
        /\ Percent(power, PowerBarConfig) <= COLOR_UNITS

\* C18: charging goes from true to false only in a frame whose button state
\* has a release edge: whenever charging was true when the frame began and
\* is false now, just_released is set.
C18_OnlyReleaseEndsCharge ==
    (start.charging /\ ~power.charging) => mouse.just_released

\* C18 witness: a charge ended by shoot_ball in a frame with a release edge.
C18_Witness ==
    /\ pc = "spawn_ball"
    /\ start.charging
    /\ ~power.charging
    /\ mouse.just_released
    /\ ~mouse.pressed

\* C20 (as claimed): every BallSpawn event written carries a power within
\* [POWER_MIN, POWER_MAX].
C20_RequestPowerInRange ==
    \A i \in 1..Len(ballSpawn.old \o ballSpawn.new) :
        LET e == (ballSpawn.old \o ballSpawn.new)[i]
        IN  e.power >= POWER_MIN /\ e.power <= POWER_MAX

\* ------------------------------------------ properties of focus and grab
\* toggle_grab was skipped in the current frame: its run condition was false.
NoToggle == "toggle_grab" \in ran /\ commands.toggle_grab = <<>>
\* The step that applies the frame's Commands.
Applying == pc = "ApplyDeferred" /\ pc' = "First"

\* C11: in a frame given several WindowFocused events, focus_events triggers
\* exactly one GrabEvent, with the value of the last event; when toggle_grab
\* does not run in that frame, the cursor is hidden and locked after the
\* frame exactly if that last value is true, and Window::focused is that
\* value.
C11_LastSignalWins ==
    [][/\ (pc = "focus_events" /\ Len(focusEvents) >= 2) =>
              commands'.focus_events = << focusEvents[Len(focusEvents)] >>
       /\ (Applying /\ start.signals >= 2 /\ NoToggle) =>
              /\ Len(commands.focus_events) = 1
              /\ window'.focused = commands.focus_events[1]
              /\ window'.cursor_visible = ~commands.focus_events[1]
              /\ window'.grab_locked = commands.focus_events[1]]_vars

\* C11 witness: a frame given two focus events, the last one a gain of
\* focus, in which toggle_grab did not run: one GrabEvent(true) is queued
\* while the cursor is still visible.
C11_Witness ==
    /\ pc = "ApplyDeferred"
    /\ start.signals = 2
    /\ NoToggle
    /\ commands.focus_events = << TRUE >>
    /\ window.cursor_visible

\* The cursor is hidden and locked exactly if the window w is focused.
GrabAgrees(w) ==
    w.cursor_visible = ~w.focused /\ w.grab_locked = w.focused

\* C12 (as claimed): toggle_grab flips Window::focused and triggers one
\* GrabEvent with the flipped value, and after a frame in which it ran the
\* cursor is hidden and locked exactly if Window::focused is true.
C12_ToggleSetsCapture ==
    [][/\ commands'.toggle_grab # commands.toggle_grab /\ ~Applying =>
              /\ window'.focused = ~window.focused
              /\ commands'.toggle_grab = << window'.focused >>
       /\ (Applying /\ commands.toggle_grab # <<>>) => GrabAgrees(window')]_vars

\* C19 (as claimed): after every frame in which a GrabEvent was triggered,
\* by focus_events, by toggle_grab or by both, the cursor is hidden and
\* locked exactly if Window::focused is true.
C19_CaptureAgreesWithFocus ==
    [][(Applying /\ commands.focus_events \o commands.toggle_grab # <<>>) =>
            GrabAgrees(window')]_vars

\* ------------------------------------------------------------ FixedUpdate
\* One run of FixedUpdate is apply_gravity, then apply_velocity, then bounce
\* (the .before and .after of main), each over every ball.  Time::delta_secs
\* is the fixed step of 1/60 s there, so GRAVITY * delta_secs is
\* (0, GRAVITY_Y, 0) in velocity units and velocity * delta_secs is the
\* velocity's number in translation units.
GravityStep(v) == Add(v, Vec3(0, GRAVITY_Y, 0))

\* Mutant: apply_velocity moving a ball by the velocity it had before
\* apply_gravity, as if it ran first.
VelocityStep_PreGravity(t, v) == Add(t, Add(v, Vec3(0, -GRAVITY_Y, 0)))

VelocityStep(t, v) == Add(t, v)

\* Mutant: bounce testing `translation.y <= 0.`.
Bounces_AtGround(t, v) == Y(t) <= 0 /\ Y(v) < 0

\* The test of bounce and the velocity it leaves.
Bounces(t, v) == Y(t) < 0 /\ Y(v) < 0

\* Mutant: bounce testing only the height.
BounceStep_AnySign(t, v) ==
    IF Y(t) < 0 THEN Vec3(v[1], Y(v) * (-1), v[3]) ELSE v

BounceStep(t, v) == IF Bounces(t, v) THEN Vec3(v[1], Y(v) * (-1), v[3]) ELSE v

apply_gravity ==
    /\ fixed = "apply_gravity"
    /\ ticks < MaxTicks
    /\ balls' = [i \in 1..Len(balls) |->
                    [balls[i] EXCEPT !.velocity = GravityStep(@)]]
    /\ before' = balls
    /\ fixed' = "apply_velocity"
    /\ UNCHANGED <<power, window, mouse, delta, pitch, focusEvents,
                   ballSpawn, eventCount, lastRead, commands, pc, ran,
                   start, ticks, flips,
                   bar, yaw, motion>>

\* flips: a ball that is on or above the ground again starts a new count.
apply_velocity ==
    /\ fixed = "apply_velocity"
    /\ balls' = [i \in 1..Len(balls) |->
                    [balls[i] EXCEPT !.translation =
                        VelocityStep(@, balls[i].velocity)]]
    /\ flips' = [i \in 1..Len(balls) |->
                    IF Y(balls'[i].translation) >= 0 THEN 0 ELSE flips[i]]
    /\ fixed' = "bounce"
    /\ UNCHANGED <<power, window, mouse, delta, pitch, focusEvents,
                   ballSpawn, eventCount, lastRead, commands, pc, ran,
                   start, ticks,
                   bar, yaw, motion, before>>

bounce ==
    /\ fixed = "bounce"
    /\ balls' = [i \in 1..Len(balls) |->
                    [balls[i] EXCEPT !.velocity =
                        BounceStep(balls[i].translation, @)]]
    /\ flips' = [i \in 1..Len(balls) |->
                    IF balls'[i].velocity # balls[i].velocity
                    THEN flips[i] + 1 ELSE flips[i]]
    /\ fixed' = "apply_gravity"
    /\ ticks' = ticks + 1
    /\ UNCHANGED <<power, window, mouse, delta, pitch, focusEvents,
                   ballSpawn, eventCount, lastRead, commands, pc, ran, start,
                   bar, yaw, motion, before>>

\* The balls a run of FixedUpdate starts from: any ball spawn_ball makes of a
\* BallSpawn event shoot_ball can write (a power of 0, the initial
\* Power.current, or POWER_MIN .. POWER_MAX, and any pitch), and a ball
\* falling at 2 m/s from a height of 5 m, and a ball that reaches the ground
\* exactly (ApexBall).
SpawnedBalls ==
    { Ball([id |-> 1, position |-> PlayerTranslation,
            velocity |-> Mul(Forward(p), SHOT_VELOCITY), power |-> c,
            forward |-> Forward(p)]) :
        p \in (-PITCH_MAX)..PITCH_MAX, c \in {0} \cup (POWER_MIN..POWER_MAX) }
FallingBall ==
    [translation |-> FromTranslation(Vec3(0, 5, 0)),
     velocity |-> Velocity(Vec3(0, -2, 0)),
     request |-> 1, forward |-> Vec3(0, -1, 0), power |-> 0]

\* A ball at rest one step of gravity above the ground: the first step
\* brings it to a height of exactly 0, moving down.
ApexBall ==
    [translation |-> Vec3(0, -GRAVITY_Y, 0),
     velocity |-> ZERO,
     request |-> 1, forward |-> Vec3(0, -1, 0), power |-> 0]

InitFixed ==
    /\ power = [charging |-> FALSE, current |-> 0]
    /\ window = [focused |-> TRUE, cursor_visible |-> TRUE, grab_locked |-> FALSE]
    /\ mouse = [pressed |-> FALSE, just_pressed |-> FALSE, just_released |-> FALSE]
    /\ delta = 0
    /\ pitch = 0
    /\ focusEvents = <<>>
    /\ ballSpawn = [old |-> <<>>, new |-> <<>>]
    /\ eventCount = 0
    /\ lastRead = 0
    /\ commands = [focus_events |-> <<>>, toggle_grab |-> <<>>, spawn_ball |-> <<>>]
    /\ \E n \in 1..MaxBodies : balls \in [1..n -> SpawnedBalls \cup {FallingBall, ApexBall}]
    /\ pc = "First"
    /\ ran = {}
    /\ start = [charging |-> FALSE, current |-> 0, count |-> 0, signals |-> 0]
    /\ fixed = "apply_gravity"
    /\ ticks = 0
    /\ flips = [i \in 1..Len(balls) |-> 0]
    /\ before = balls
    /\ bar = [bg |-> NOT_CHARGING, width |-> "Auto", seen |-> <<>>]
    /\ yaw = 0
    /\ motion = <<0, 0>>

NextFixed ==
    \/ apply_gravity
    \/ apply_velocity
    \/ bounce

SpecFixed == InitFixed /\ [][NextFixed]_vars

\* --------------------------------------------- properties of a fixed step
\* A fixed step is over: bounce has run and apply_gravity is next.
StepDone == fixed = "apply_gravity" /\ ticks > 0

\* C4: at the end of every fixed step no ball is below the ground and
\* moving down.
C4_NoSinkingAfterStep ==
    StepDone =>
        \A i \in 1..Len(balls) :
            ~(Y(balls[i].translation) < 0 /\ Y(balls[i].velocity) < 0)

\* C4 witness: the ball falling from 5 m is below the ground at the end of a
\* step, with the upward velocity bounce gave it.
C4_Witness ==
    /\ StepDone
    /\ balls[1].request = FallingBall.request
    /\ balls[1].forward = FallingBall.forward
    /\ balls[1].power = FallingBall.power
    /\ balls[1].translation[1] = 0
    /\ Y(balls[1].translation) < 0
    /\ Y(balls[1].velocity) > 0
    /\ flips[1] = 1

\* C5 (as claimed): while a ball stays below the ground, bounce negates its
\* vertical velocity once.  It is stated for the balls launched with a power
\* within [POWER_MIN, POWER_MAX], so that a violation does not rest on the
\* initial current_power of 0 (C1).
C5_OneFlipPerCrossing ==
    \A i \in 1..Len(balls) :
        balls[i].power >= POWER_MIN => flips[i] <= 1

\* C13: every fixed step is apply_gravity, then apply_velocity, then bounce,
\* over every ball: a ball that began the step with velocity v and
\* translation p ends it at p1 = p + v1 with v1 = v + GRAVITY * dt, and with
\* the velocity bounce leaves for (p1, v1).
C13_StepIsGravityMoveBounce ==
    StepDone =>
        /\ Len(balls) = Len(before)
        /\ \A i \in 1..Len(balls) :
              LET v1 == Add(before[i].velocity, Vec3(0, GRAVITY_Y, 0))
                  p1 == Add(before[i].translation, v1)
              IN  /\ balls[i].translation = p1
                  /\ balls[i].velocity =
                        IF Y(p1) < 0 /\ Y(v1) < 0
                        THEN Vec3(v1[1], -Y(v1), v1[3])
                        ELSE v1

\* C13 witness: the first step of the ball falling at 2 m/s from 5 m.
C13_Witness ==
    /\ StepDone
    /\ ticks = 1
    /\ before[1].translation = FallingBall.translation
    /\ before[1].velocity = FallingBall.velocity
    /\ Y(balls[1].velocity) = Y(FallingBall.velocity) + GRAVITY_Y
    /\ Y(balls[1].translation) =
          Y(FallingBall.translation) + Y(FallingBall.velocity) + GRAVITY_Y

\* C17: bounce changes a ball only if its translation.y < 0 and its
\* velocity.y < 0, and then only the sign of velocity.y: the size of
\* velocity.y, the other velocity components and the translation stay.
C17_BounceOnlyNegatesY ==
    [][fixed = "bounce" =>
        /\ Len(balls') = Len(balls)
        /\ \A i \in 1..Len(balls) :
              /\ balls'[i].translation = balls[i].translation
              /\ balls'[i].velocity[1] = balls[i].velocity[1]
              /\ balls'[i].velocity[3] = balls[i].velocity[3]
              /\ Y(balls'[i].velocity) =
                    IF Y(balls[i].translation) < 0 /\ Y(balls[i].velocity) < 0
                    THEN -Y(balls[i].velocity)
                    ELSE Y(balls[i].velocity)]_vars

\* C17 witness: after bounce, a ball at a height of exactly 0 still moves
\* down, and a ball launched level that fell below the ground moves up with
\* its horizontal velocity.
C17_Witness ==
    /\ StepDone
    /\ Len(balls) = 2
    /\ Y(balls[1].translation) = 0
    /\ Y(balls[1].velocity) < 0
    /\ flips[1] = 0
    /\ Y(balls[2].translation) < 0
    /\ Y(balls[2].velocity) > 0
    /\ balls[2].velocity[3] # 0
    /\ flips[2] = 1

====
